---- MODULE Spec2Model ----
(***************************************************************************)
(* Model of fem_1d_heat/geometry.py: the coordinate map, the linear shape  *)
(* and gradient rows, the validated Point / Node / Element objects and the *)
(* quadrature-integrated element matrices.                                 *)
(*                                                                         *)
(* Numbers.  A Python float is modelled as an extended number: either      *)
(* "nan", "pinf", "ninf", or the exact finite value (a + b*sqrt(3)) / d    *)
(* with integers a, b and d > 0 in lowest terms.  The sqrt(3) part is      *)
(* there because the Gauss points of Element._int_pts are (3 -+ sqrt 3)/6. *)
(* Arithmetic on finite values is exact (binary64 rounding and the sign of *)
(* zero are not modelled); the special values follow IEEE-754, which is    *)
(* what Python floats and numpy float64 scalars do.                        *)
(***************************************************************************)
EXTENDS Integers, Sequences, FiniteSets, TLC

VARIABLES objs, elem, res, call

vars == <<objs, elem, res, call>>

----------------------------------------------------------------------------
(* Extended numbers *)

NaN == [k |-> "nan", a |-> 0, b |-> 0, d |-> 1]
PInf == [k |-> "pinf", a |-> 0, b |-> 0, d |-> 1]
NInf == [k |-> "ninf", a |-> 0, b |-> 0, d |-> 1]

IAbs(i) == IF i < 0 THEN -i ELSE i

RECURSIVE Gcd(_, _)
Gcd(m, n) == IF n = 0 THEN m ELSE Gcd(n, m % n)

\* (a + b*sqrt(3)) / d in lowest terms, d > 0
Fin(a, b, d) ==
    LET s == IF d < 0 THEN -1 ELSE 1
        g == Gcd(Gcd(IAbs(a), IAbs(b)), IAbs(d))
    IN  [k |-> "fin", a |-> (s * a) \div g, b |-> (s * b) \div g, d |-> (s * d) \div g]

Rat(n, d) == Fin(n, 0, d)
Num(n) == Fin(n, 0, 1)
Zero == Num(0)
One == Num(1)

IsFin(x) == x.k = "fin"
IsNaN(x) == x.k = "nan"

\* sign of the numerator a + b*sqrt(3): -1, 0 or 1
SgnAB(a, b) ==
    IF b = 0 THEN (IF a > 0 THEN 1 ELSE IF a < 0 THEN -1 ELSE 0)
    ELSE IF a = 0 THEN (IF b > 0 THEN 1 ELSE -1)
    ELSE IF a > 0 /\ b > 0 THEN 1
    ELSE IF a < 0 /\ b < 0 THEN -1
    ELSE IF a > 0 THEN (IF a * a > 3 * b * b THEN 1 ELSE -1)
    ELSE (IF 3 * b * b > a * a THEN 1 ELSE -1)

\* sign of an extended number that is not NaN
Sgn(x) ==
    IF x.k = "pinf" THEN 1
    ELSE IF x.k = "ninf" THEN -1
    ELSE SgnAB(x.a, x.b)

FNeg(x) ==
    IF x.k = "nan" THEN NaN
    ELSE IF x.k = "pinf" THEN NInf
    ELSE IF x.k = "ninf" THEN PInf
    ELSE Fin(-x.a, -x.b, x.d)

FAdd(x, y) ==
    IF IsNaN(x) \/ IsNaN(y) THEN NaN
    ELSE IF IsFin(x) /\ IsFin(y)
         THEN Fin(x.a * y.d + y.a * x.d, x.b * y.d + y.b * x.d, x.d * y.d)
    ELSE IF IsFin(x) THEN y
    ELSE IF IsFin(y) THEN x
    ELSE IF x = y THEN x
    ELSE NaN

FSub(x, y) == FAdd(x, FNeg(y))

FMul(x, y) ==
    IF IsNaN(x) \/ IsNaN(y) THEN NaN
    ELSE IF IsFin(x) /\ IsFin(y)
         THEN Fin(x.a * y.a + 3 * x.b * y.b, x.a * y.b + x.b * y.a, x.d * y.d)
    ELSE IF Sgn(x) * Sgn(y) = 0 THEN NaN
    ELSE IF Sgn(x) * Sgn(y) > 0 THEN PInf
    ELSE NInf

\* 1 / y for a finite nonzero y: conj(y) * d / (a^2 - 3 b^2)
FInv(y) == Fin(y.a * y.d, -(y.b * y.d), y.a * y.a - 3 * y.b * y.b)

\* numpy float64 division: a zero divisor gives inf or nan, never an exception
FDiv(x, y) ==
    IF IsNaN(x) \/ IsNaN(y) THEN NaN
    ELSE IF ~IsFin(y) THEN (IF IsFin(x) THEN Zero ELSE NaN)
    ELSE IF Sgn(y) = 0
         THEN (IF Sgn(x) = 0 THEN NaN ELSE IF Sgn(x) > 0 THEN PInf ELSE NInf)
    ELSE FMul(x, FInv(y))

\* IEEE comparisons: every comparison with NaN is false
FLt(x, y) ==
    /\ ~IsNaN(x)
    /\ ~IsNaN(y)
    /\ x # y
    /\ IF IsFin(x) /\ IsFin(y) THEN Sgn(FSub(y, x)) > 0
       ELSE x.k = "ninf" \/ y.k = "pinf"

FEq(x, y) == ~IsNaN(x) /\ ~IsNaN(y) /\ x = y
FLe(x, y) == FLt(x, y) \/ FEq(x, y)
FGe(x, y) == FLe(y, x)

FAbs(x) ==
    IF IsNaN(x) THEN NaN
    ELSE IF Sgn(x) < 0 THEN FNeg(x)
    ELSE x

----------------------------------------------------------------------------
(* Python values handed to the library, and what float() makes of them *)

PyFloat(x) == [t |-> "float", v |-> x, s |-> "", items |-> <<>>]
PyInt(n) == [t |-> "int", v |-> Num(n), s |-> "", items |-> <<>>]
PyStr(s) == [t |-> "str", v |-> Zero, s |-> s, items |-> <<>>]
PyList(items) == [t |-> "list", v |-> Zero, s |-> "", items |-> items]

\* the strings float() parses; every other string makes it raise ValueError
NumericStrings == {"1.5", "nan", "inf", "-1"}

IsScalar(value) == value.t \in {"float", "int", "str"}

\* float(value) returns (TRUE) or raises ValueError (FALSE), for a number or a string
CanFloat(value) ==
    \/ value.t \in {"float", "int"}
    \/ value.t = "str" /\ value.s \in NumericStrings

\* the float that float(value) returns when it does not raise
ToFloat(value) ==
    IF value.t \in {"float", "int"} THEN value.v
    ELSE IF value.s = "1.5" THEN Rat(3, 2)
    ELSE IF value.s = "nan" THEN NaN
    ELSE IF value.s = "inf" THEN PInf
    ELSE Num(-1)

(* Outcome of one call: the exception raised ("none" when it returns), the *)
(* shape of the value returned and the value.                              *)
Raise(e) == [err |-> e, ty |-> "none", val |-> Zero]
Return(ty, val) == [err |-> "none", ty |-> ty, val |-> val]

RECURSIVE Flatten(_)
Flatten(rows) == IF rows = <<>> THEN <<>> ELSE Head(rows).items \o Flatten(Tail(rows))

\* np.array(z_e, dtype=float).flatten(): ok = FALSE when numpy raises ValueError
np_array_flatten(z_e) ==
    LET idx == 1..Len(z_e.items)
        flat == IF z_e.t # "list" THEN <<z_e>>
                ELSE IF \A i \in idx : IsScalar(z_e.items[i]) THEN z_e.items
                ELSE Flatten(z_e.items)
        rect == \/ z_e.t # "list"
                \/ \A i \in idx : IsScalar(z_e.items[i])
                \/ /\ \A i \in idx : z_e.items[i].t = "list"
                   /\ \A i, j \in idx : Len(z_e.items[i].items) = Len(z_e.items[j].items)
                   /\ \A i \in idx : \A j \in 1..Len(z_e.items[i].items) :
                          IsScalar(z_e.items[i].items[j])
    IN  IF rect /\ \A i \in 1..Len(flat) : CanFloat(flat[i])
        THEN [ok |-> TRUE, val |-> [i \in 1..Len(flat) |-> ToFloat(flat[i])]]
        ELSE [ok |-> FALSE, val |-> <<>>]

\* global_to_local dividing by the second coordinate instead of the element length
global_to_local_no_offset(z, z_e) ==
    IF ~CanFloat(z) THEN Raise("ValueError")
    ELSE LET zf == ToFloat(z)
             ze == np_array_flatten(z_e)
         IN  IF ~ze.ok THEN Raise("ValueError")
             ELSE IF Len(ze.val) # 2 THEN Raise("ValueError")
             ELSE Return("float", FDiv(FSub(zf, ze.val[1]), ze.val[2]))

global_to_local(z, z_e) ==
    IF ~CanFloat(z) THEN Raise("ValueError")
    ELSE LET zf == ToFloat(z)
             ze == np_array_flatten(z_e)
         IN  IF ~ze.ok THEN Raise("ValueError")
             ELSE IF Len(ze.val) # 2 THEN Raise("ValueError")
             ELSE Return("float", FDiv(FSub(zf, ze.val[1]), FSub(ze.val[2], ze.val[1])))

shape_matrix(s) ==
    IF ~CanFloat(s) THEN Raise("ValueError")
    ELSE LET sf == ToFloat(s)
         IN  IF FLt(sf, Zero) \/ FLt(One, sf) THEN Raise("ValueError")
             ELSE Return("row", <<<<FSub(One, sf), sf>>>>)

\* gradient_matrix rejecting dz = 0 as well
gradient_matrix_strict(s, dz) ==
    IF ~CanFloat(s) THEN Raise("ValueError")
    ELSE LET sf == ToFloat(s)
         IN  IF FLt(sf, Zero) \/ FLt(One, sf) THEN Raise("ValueError")
             ELSE IF ~CanFloat(dz) THEN Raise("ValueError")
             ELSE LET dzf == ToFloat(dz)
                  IN  IF FLe(dzf, Zero) THEN Raise("ValueError")
                      ELSE Return("row", <<<<FDiv(Num(-1), dzf), FDiv(One, dzf)>>>>)

gradient_matrix(s, dz) ==
    IF ~CanFloat(s) THEN Raise("ValueError")
    ELSE LET sf == ToFloat(s)
         IN  IF FLt(sf, Zero) \/ FLt(One, sf) THEN Raise("ValueError")
             ELSE IF ~CanFloat(dz) THEN Raise("ValueError")
             ELSE LET dzf == ToFloat(dz)
                  IN  IF FLt(dzf, Zero) THEN Raise("ValueError")
                      ELSE Return("row", <<<<FDiv(Num(-1), dzf), FDiv(One, dzf)>>>>)

----------------------------------------------------------------------------
(* Point, Node and Element objects *)

\* longest node collection handed to Element(...)
MaxLen == 3
\* finite depths tried are 3k/2 for k in 0..MaxDepth
MaxDepth == 1

\* the Point / Node objects a run may create
ObjIds == {1, 2}

\* a slot before its object is constructed
NoObj == [cls |-> "none", z |-> Zero, temp |-> Zero]
NoElem == [live |-> FALSE, nodes |-> <<>>, thm_cond |-> Zero, vol_heat_cap |-> Zero]

\* Element._int_pts = (3 - sqrt 3)/6, (3 + sqrt 3)/6 and Element._int_wts
int_pts == <<Fin(3, -1, 6), Fin(3, 1, 6)>>
int_wts == <<Rat(1, 2), Rat(1, 2)>>

\* isinstance(nd, Node) for an entry of the collection: 0 stands for a float
IsNode(it) == it \in ObjIds /\ objs[it].cls = "Node"

\* Element.dz
dz(e) == FAbs(FSub(objs[e.nodes[2]].z, objs[e.nodes[1]].z))

\* validated setter shared by thm_cond and vol_heat_cap: the value stored, or the error
checked_property(value) ==
    IF ~CanFloat(value) THEN Raise("ValueError")
    ELSE IF FLt(ToFloat(value), Zero) THEN Raise("ValueError")
    ELSE Return("float", ToFloat(value))

outer(N) == [i \in 1..2 |-> [j \in 1..2 |-> FMul(N[1][i], N[1][j])]]
MScale(M, c) == [i \in 1..2 |-> [j \in 1..2 |-> FMul(M[i][j], c)]]
MAdd(A, B) == [i \in 1..2 |-> [j \in 1..2 |-> FAdd(A[i][j], B[i][j])]]
zeros(n) == [i \in 1..n |-> [j \in 1..n |-> Zero]]

\* the quadrature loop of storage_matrix from point q on, K accumulated so far
RECURSIVE storage_loop(_, _, _)
storage_loop(e, K, q) ==
    IF q > Len(int_pts) THEN Return("matrix", K)
    ELSE LET N == shape_matrix(PyFloat(int_pts[q]))
         IN  IF N.err # "none" THEN N
             ELSE storage_loop(e,
                      MAdd(K, MScale(MScale(MScale(outer(N.val), dz(e)), int_wts[q]),
                                     e.vol_heat_cap)),
                      q + 1)

storage_matrix(e) == storage_loop(e, zeros(Len(e.nodes)), 1)

\* returns the bound method itself, not a matrix
conductivity_matrix(e) == Return("method", Zero)

----------------------------------------------------------------------------
(* Inputs *)

DepthInputs ==
    {PyFloat(Rat(3 * k, 2)) : k \in 0..MaxDepth}
        \cup {PyFloat(PInf), PyStr("nan"), PyStr("five")}

TempInputs == {PyFloat(Zero), PyFloat(NaN), PyStr("five")}

\* values assigned to thm_cond and to vol_heat_cap
CondInputs ==
    {PyFloat(Zero), PyFloat(Num(69)), PyInt(-1), PyFloat(Rat(-1, 10)),
     PyStr("five"), PyFloat(NaN)}
CapInputs ==
    {PyFloat(Zero), PyFloat(Num(420)), PyFloat(Rat(-1, 10)), PyStr("five"), PyStr("nan")}

\* values given to the constructor: the default 0.0, a valid and an invalid one
CondInitInputs == {PyFloat(Zero), PyFloat(Num(69)), PyFloat(Rat(-1, 10))}
CapInitInputs == {PyFloat(Zero), PyFloat(Num(420)), PyStr("five")}

\* node collections: a non-iterable float, every pair of entries, and for each
\* other length up to MaxLen one entry repeated; an entry is an object or a float (0)
Collections ==
    {[iter |-> FALSE, items |-> <<>>]}
        \cup {[iter |-> TRUE, items |-> s] : s \in [1..2 -> ObjIds \cup {0}]}
        \cup {[iter |-> TRUE, items |-> [i \in 1..n |-> x]] :
                n \in (1..MaxLen) \ {2}, x \in ObjIds \cup {0}}

NoCall == [fn |-> "none", a1 |-> PyFloat(Zero), a2 |-> PyFloat(Zero)]
NoArg == PyFloat(Zero)
Done(op, arg, r) == [op |-> op, arg |-> arg, err |-> r.err, ty |-> r.ty, val |-> r.val]
NoRes == Done("none", NoArg, Raise("none"))

----------------------------------------------------------------------------
(* Operations on objects *)

Init ==
    /\ objs = [i \in ObjIds |-> NoObj]
    /\ elem = NoElem
    /\ res = NoRes
    /\ call = NoCall

\* Point(z): self.z = z
Point_init(i, z) ==
    /\ objs[i].cls = "none"
    /\ IF CanFloat(z)
       THEN /\ objs' = [objs EXCEPT ![i] = [cls |-> "Point", z |-> ToFloat(z), temp |-> Zero]]
            /\ res' = Done("Point", NoArg, Return("none", Zero))
       ELSE /\ objs' = objs
            /\ res' = Done("Point", NoArg, Raise("ValueError"))
    /\ UNCHANGED <<elem, call>>

\* Node(z, temp): self.temp = temp, then self.z = z
Node_init(i, z, temp) ==
    /\ objs[i].cls = "none"
    /\ IF CanFloat(temp) /\ CanFloat(z)
       THEN /\ objs' = [objs EXCEPT ![i] =
                           [cls |-> "Node", z |-> ToFloat(z), temp |-> ToFloat(temp)]]
            /\ res' = Done("Node", NoArg, Return("none", Zero))
       ELSE /\ objs' = objs
            /\ res' = Done("Node", NoArg, Raise("ValueError"))
    /\ UNCHANGED <<elem, call>>

\* p.z = value, for a Point or a Node
set_z(i, value) ==
    /\ objs[i].cls # "none"
    /\ IF CanFloat(value)
       THEN /\ objs' = [objs EXCEPT ![i].z = ToFloat(value)]
            /\ res' = Done("set_z", NoArg, Return("none", Zero))
       ELSE /\ objs' = objs
            /\ res' = Done("set_z", NoArg, Raise("ValueError"))
    /\ UNCHANGED <<elem, call>>

\* n.temp = value
set_temp(i, value) ==
    /\ objs[i].cls = "Node"
    /\ IF CanFloat(value)
       THEN /\ objs' = [objs EXCEPT ![i].temp = ToFloat(value)]
            /\ res' = Done("set_temp", NoArg, Return("none", Zero))
       ELSE /\ objs' = objs
            /\ res' = Done("set_temp", NoArg, Raise("ValueError"))
    /\ UNCHANGED <<elem, call>>

\* Element(...) testing isinstance(nd, Point) instead of isinstance(nd, Node)
Element_outcome_any_point(nodes, thm_cond, vol_heat_cap) ==
    IF ~nodes.iter THEN Raise("TypeError")
    ELSE IF Len(nodes.items) # 2 THEN Raise("ValueError")
    ELSE IF \E i \in 1..2 : nodes.items[i] \notin ObjIds THEN Raise("TypeError")
    ELSE IF checked_property(thm_cond).err # "none" THEN checked_property(thm_cond)
    ELSE IF checked_property(vol_heat_cap).err # "none" THEN checked_property(vol_heat_cap)
    ELSE Return("none", Zero)

\* Element(...) raising TypeError for a collection of the wrong length
Element_outcome_len_type_error(nodes, thm_cond, vol_heat_cap) ==
    IF ~nodes.iter THEN Raise("TypeError")
    ELSE IF Len(nodes.items) # 2 THEN Raise("TypeError")
    ELSE IF \E i \in 1..2 : ~IsNode(nodes.items[i]) THEN Raise("TypeError")
    ELSE IF checked_property(thm_cond).err # "none" THEN checked_property(thm_cond)
    ELSE IF checked_property(vol_heat_cap).err # "none" THEN checked_property(vol_heat_cap)
    ELSE Return("none", Zero)

\* the outcome of Element(nodes, thm_cond, vol_heat_cap)
Element_outcome(nodes, thm_cond, vol_heat_cap) ==
    IF ~nodes.iter THEN Raise("TypeError")
    ELSE IF Len(nodes.items) # 2 THEN Raise("ValueError")
    ELSE IF \E i \in 1..2 : ~IsNode(nodes.items[i]) THEN Raise("TypeError")
    ELSE IF checked_property(thm_cond).err # "none" THEN checked_property(thm_cond)
    ELSE IF checked_property(vol_heat_cap).err # "none" THEN checked_property(vol_heat_cap)
    ELSE Return("none", Zero)

Element_init(nodes, thm_cond, vol_heat_cap) ==
    /\ ~elem.live
    /\ \A i \in 1..Len(nodes.items) :
           nodes.items[i] \in ObjIds => objs[nodes.items[i]].cls # "none"
    /\ LET r == Element_outcome(nodes, thm_cond, vol_heat_cap)
       IN  /\ res' = Done("Element", nodes, r)
           /\ elem' = IF r.err = "none"
                      THEN [live |-> TRUE, nodes |-> nodes.items,
                            thm_cond |-> checked_property(thm_cond).val,
                            vol_heat_cap |-> checked_property(vol_heat_cap).val]
                      ELSE elem
    /\ UNCHANGED <<objs, call>>

\* e.thm_cond = value storing the converted value before the range check
set_thm_cond_store_first(value) ==
    /\ elem.live
    /\ LET r == checked_property(value)
       IN  /\ res' = Done("set_thm_cond", value, [r EXCEPT !.ty = "none", !.val = Zero])
           /\ elem' = IF CanFloat(value) THEN [elem EXCEPT !.thm_cond = ToFloat(value)]
                      ELSE elem
    /\ UNCHANGED <<objs, call>>

\* e.thm_cond = value
set_thm_cond(value) ==
    /\ elem.live
    /\ LET r == checked_property(value)
       IN  /\ res' = Done("set_thm_cond", value, [r EXCEPT !.ty = "none", !.val = Zero])
           /\ elem' = IF r.err = "none" THEN [elem EXCEPT !.thm_cond = r.val] ELSE elem
    /\ UNCHANGED <<objs, call>>

\* e.vol_heat_cap = value
set_vol_heat_cap(value) ==
    /\ elem.live
    /\ LET r == checked_property(value)
       IN  /\ res' = Done("set_vol_heat_cap", value, [r EXCEPT !.ty = "none", !.val = Zero])
           /\ elem' = IF r.err = "none" THEN [elem EXCEPT !.vol_heat_cap = r.val] ELSE elem
    /\ UNCHANGED <<objs, call>>

\* e.dz
get_dz ==
    /\ elem.live
    /\ res' = Done("dz", NoArg, Return("float", dz(elem)))
    /\ UNCHANGED <<objs, elem, call>>

\* e.storage_matrix()
call_storage_matrix ==
    /\ elem.live
    /\ res' = Done("storage_matrix", NoArg, storage_matrix(elem))
    /\ UNCHANGED <<objs, elem, call>>

\* e.conductivity_matrix()
call_conductivity_matrix ==
    /\ elem.live
    /\ res' = Done("conductivity_matrix", NoArg, conductivity_matrix(elem))
    /\ UNCHANGED <<objs, elem, call>>

Next ==
    \/ \E i \in ObjIds, z \in DepthInputs : Point_init(i, z)
    \/ \E i \in ObjIds, z \in DepthInputs, temp \in TempInputs : Node_init(i, z, temp)
    \/ \E i \in ObjIds, value \in DepthInputs : set_z(i, value)
    \/ \E i \in ObjIds, value \in TempInputs : set_temp(i, value)
    \/ \E nodes \in Collections, k \in CondInitInputs, c \in CapInitInputs :
           Element_init(nodes, k, c)
    \/ \E value \in CondInputs : set_thm_cond(value)
    \/ \E value \in CapInputs : set_vol_heat_cap(value)
    \/ get_dz
    \/ call_storage_matrix
    \/ call_conductivity_matrix

Spec == Init /\ [][Next]_vars

----------------------------------------------------------------------------
(* The free functions, each applied once to arguments drawn by InitFn *)

\* node coordinates tried are 0..MaxCoord, z runs over the halves from -1 to MaxCoord + 1
MaxCoord == 6
\* s runs over k/SDen for k in -1..SDen+1
SDen == 10
\* dz runs over k/2 for k in -1..MaxDz
MaxDz == 4

Coords == {PyFloat(Num(k)) : k \in 0..MaxCoord}

ZInputs == {PyFloat(Rat(k, 2)) : k \in (-2)..(2 * MaxCoord + 2)} \cup {PyStr("two")}

ZeInputs ==
    {PyList(<<a, b>>) : a, b \in Coords}
        \cup {PyStr("two"), PyFloat(Zero), PyList(<<PyFloat(Zero)>>),
              PyList(<<PyFloat(Zero), PyFloat(One), PyFloat(Num(2))>>),
              PyList(<<PyFloat(Zero), PyStr("two")>>),
              PyList(<<PyList(<<PyFloat(Zero)>>), PyList(<<PyFloat(Num(6))>>)>>),
              PyList(<<PyList(<<PyFloat(Zero)>>), PyList(<<PyFloat(One), PyFloat(Num(2))>>)>>)}

SInputs ==
    {PyFloat(Rat(k, SDen)) : k \in (-1)..(SDen + 1)}
        \cup {PyFloat(int_pts[q]) : q \in 1..2}
        \cup {PyStr("half"), PyStr("1.5"), PyInt(1), PyFloat(NaN), PyFloat(PInf)}

DzInputs ==
    {PyFloat(Rat(k, 2)) : k \in (-1)..MaxDz}
        \cup {PyStr("five"), PyFloat(NaN), PyFloat(PInf)}

FnCalls ==
    {[fn |-> "global_to_local", a1 |-> z, a2 |-> ze] : z \in ZInputs, ze \in ZeInputs}
        \cup {[fn |-> "shape_matrix", a1 |-> s, a2 |-> NoArg] : s \in SInputs}
        \cup {[fn |-> "gradient_matrix", a1 |-> s, a2 |-> d] : s \in SInputs, d \in DzInputs}

InitFn ==
    /\ objs = [i \in ObjIds |-> NoObj]
    /\ elem = NoElem
    /\ res = NoRes
    /\ call \in FnCalls

call_global_to_local ==
    /\ res.op = "none"
    /\ call.fn = "global_to_local"
    /\ res' = Done("global_to_local", NoArg, global_to_local(call.a1, call.a2))
    /\ UNCHANGED <<objs, elem, call>>

call_shape_matrix ==
    /\ res.op = "none"
    /\ call.fn = "shape_matrix"
    /\ res' = Done("shape_matrix", NoArg, shape_matrix(call.a1))
    /\ UNCHANGED <<objs, elem, call>>

call_gradient_matrix ==
    /\ res.op = "none"
    /\ call.fn = "gradient_matrix"
    /\ res' = Done("gradient_matrix", NoArg, gradient_matrix(call.a1, call.a2))
    /\ UNCHANGED <<objs, elem, call>>

NextFn ==
    \/ call_global_to_local
    \/ call_shape_matrix
    \/ call_gradient_matrix

SpecFn == InitFn /\ [][NextFn]_vars

----------------------------------------------------------------------------
(* Properties of the free functions, checked under SpecFn *)

\* z is a finite float and z_e a list [z0, z1] of finite floats with z0 < z1
ValidElementCall ==
    /\ call.fn = "global_to_local"
    /\ call.a1.t = "float" /\ IsFin(call.a1.v)
    /\ call.a2.t = "list" /\ Len(call.a2.items) = 2
    /\ \A i \in 1..2 : call.a2.items[i].t = "float" /\ IsFin(call.a2.items[i].v)
    /\ FLt(call.a2.items[1].v, call.a2.items[2].v)

(* C6: for node coordinates z0 < z1, global_to_local(z, [z0, z1]) returns   *)
(* s with s * (z1 - z0) = z - z0; s is 0 at z0, 1 at z1, 1/2 at the        *)
(* midpoint, inside [0, 1] exactly when z0 <= z <= z1, and a z outside the *)
(* element is answered (with s outside [0, 1]) rather than refused.        *)
C6_GlobalToLocal ==
    (res.op = "global_to_local" /\ ValidElementCall) =>
        LET z == call.a1.v
            z0 == call.a2.items[1].v
            z1 == call.a2.items[2].v
        IN  /\ res.err = "none"
            /\ res.ty = "float"
            /\ IsFin(res.val)
            /\ FMul(res.val, FSub(z1, z0)) = FSub(z, z0)
            /\ (FLe(z0, z) /\ FLe(z, z1)) <=> (FLe(Zero, res.val) /\ FLe(res.val, One))
            /\ z = z0 => res.val = Zero
            /\ z = z1 => res.val = One
            /\ FAdd(z, z) = FAdd(z0, z1) => res.val = Rat(1, 2)

\* the midpoint of the element [0, 6] maps to 0.5
C6_Witness ==
    /\ res.op = "global_to_local"
    /\ call.a1 = PyFloat(Num(3))
    /\ call.a2 = PyList(<<PyFloat(Zero), PyFloat(Num(6))>>)
    /\ res.val = Rat(1, 2)

\* s is refused: not convertible, below 0 or above 1
SRefused(s) == ~CanFloat(s) \/ FLt(ToFloat(s), Zero) \/ FLt(One, ToFloat(s))
\* dz is refused: not convertible or negative
DzRefused(value) == ~CanFloat(value) \/ FLt(ToFloat(value), Zero)

(* C7: shape_matrix(s) and gradient_matrix(s, dz) raise ValueError exactly  *)
(* when s is not convertible, s < 0 or s > 1 (0 and 1 are accepted), and   *)
(* gradient_matrix also when dz is not convertible or dz < 0 (dz = 0 is    *)
(* accepted).  Accepted calls return [1 - s, s] and [-1/dz, 1/dz], the     *)
(* latter whatever s is.                                                   *)
C7_ShapeAndGradient ==
    /\ res.op = "shape_matrix" =>
           IF SRefused(call.a1) THEN res.err = "ValueError"
           ELSE LET s == ToFloat(call.a1)
                IN  /\ res.err = "none"
                    /\ res.ty = "row"
                    /\ res.val[1][2] = s
                    /\ res.val[1][1] = FSub(One, s)
                    /\ IsFin(s) => FAdd(res.val[1][1], res.val[1][2]) = One
    /\ res.op = "gradient_matrix" =>
           IF SRefused(call.a1) \/ DzRefused(call.a2) THEN res.err = "ValueError"
           ELSE LET d == ToFloat(call.a2)
                IN  /\ res.err = "none"
                    /\ res.ty = "row"
                    /\ (IsFin(d) /\ d # Zero) =>
                           /\ FMul(res.val[1][2], d) = One
                           /\ FMul(res.val[1][1], d) = Num(-1)
                    /\ d = Zero => res.val = <<<<NInf, PInf>>>>
                    /\ d = PInf => res.val = <<<<Zero, Zero>>>>
                    /\ IsNaN(d) => res.val = <<<<NaN, NaN>>>>
    /\ (res.op = "shape_matrix" /\ call.a1 \in {PyFloat(Zero), PyFloat(One)}) =>
           res.err = "none"

\* gradient_matrix took dz = 0 without raising
C7_Witness ==
    /\ res.op = "gradient_matrix"
    /\ call.a1 = PyFloat(Zero)
    /\ call.a2 = PyFloat(Zero)
    /\ res.err = "none"
    /\ res.val = <<<<NInf, PInf>>>>

----------------------------------------------------------------------------
(* Properties of the objects, checked under Spec *)

\* an assignment of value to thm_cond or vol_heat_cap is to be rejected
PropRefused(value) == ~CanFloat(value) \/ FLt(ToFloat(value), Zero)

(* C1: an assignment to thm_cond or vol_heat_cap of a value that is not     *)
(* convertible to float, or is negative, raises ValueError and leaves both *)
(* properties, the node pair and the nodes as they were.                   *)
C1_RejectedAssignmentKeepsState ==
    [][(res'.op \in {"set_thm_cond", "set_vol_heat_cap"} /\ PropRefused(res'.arg))
          => (res'.err = "ValueError" /\ elem' = elem /\ objs' = objs)]_vars

\* thm_cond = 69.0, then e.thm_cond = -1 raised and thm_cond still reads 69.0
C1_Witness ==
    /\ res.op = "set_thm_cond"
    /\ res.arg = PyInt(-1)
    /\ res.err = "ValueError"
    /\ elem.live
    /\ elem.thm_cond = Num(69)

(* C2: in every state of a constructed Element both thm_cond and          *)
(* vol_heat_cap are numbers greater than or equal to 0.                    *)
C2_PropertiesNonNegative ==
    elem.live => (FGe(elem.thm_cond, Zero) /\ FGe(elem.vol_heat_cap, Zero))

(* C3: for an Element with dz > 0, conductivity_matrix() returns the 2x2   *)
(* matrix (thm_cond / dz) * [[1, -1], [-1, 1]], which is symmetric.        *)
C3_ConductivityMatrix ==
    (res.op = "conductivity_matrix" /\ FLt(Zero, dz(elem))) =>
        /\ res.err = "none"
        /\ res.ty = "matrix"
        /\ res.val[1][1] = FDiv(elem.thm_cond, dz(elem))
        /\ res.val[2][2] = FDiv(elem.thm_cond, dz(elem))
        /\ res.val[1][2] = FNeg(FDiv(elem.thm_cond, dz(elem)))
        /\ FEq(res.val[1][2], res.val[2][1])

(* C4: Element(nodes, ...) raises TypeError when nodes is not iterable,    *)
(* ValueError when it does not hold exactly 2 entries, TypeError when one  *)
(* of the 2 entries is not a Node, and creates no Element then; when it    *)
(* returns, the element holds the two given node objects in the order      *)
(* given.                                                                  *)
C4_ElementNodesValidation ==
    res.op = "Element" =>
        LET c == res.arg
        IN  /\ ~c.iter => (res.err = "TypeError" /\ ~elem.live)
            /\ (c.iter /\ Len(c.items) # 2) => (res.err = "ValueError" /\ ~elem.live)
            /\ (c.iter /\ Len(c.items) = 2
                  /\ \E i \in 1..2 : c.items[i] = 0 \/ objs[c.items[i]].cls # "Node")
                 => (res.err = "TypeError" /\ ~elem.live)
            /\ res.err # "none" => ~elem.live
            /\ res.err = "none" =>
                   /\ elem.live
                   /\ elem.nodes = c.items
                   /\ Len(elem.nodes) = 2
                   /\ \A i \in 1..2 : objs[elem.nodes[i]].cls = "Node"

\* Element((n2, n1)) returned and holds n2, n1 in that order
C4_Witness ==
    /\ res.op = "Element"
    /\ res.err = "none"
    /\ elem.live
    /\ elem.nodes = <<2, 1>>

(* C5 as stated: Element(nodes, ...) with a collection whose length is not *)
(* 2 fails with a type error.                                              *)
C5_LengthIsTypeError ==
    (res.op = "Element" /\ res.arg.iter /\ Len(res.arg.items) # 2) =>
        res.err = "TypeError"

(* C5 amended: Element(nodes, ...) with a collection whose length is not 2 *)
(* (one entry, three entries) fails with ValueError, whatever the entries  *)
(* are, and creates no Element.                                            *)
C5_LengthIsValueError ==
    (res.op = "Element" /\ res.arg.iter /\ Len(res.arg.items) # 2) =>
        (res.err = "ValueError" /\ ~elem.live)

\* Element of three Node objects raised ValueError
C5_Witness ==
    /\ res.op = "Element"
    /\ Len(res.arg.items) = 3
    /\ res.arg.items[1] \in ObjIds
    /\ objs[res.arg.items[1]].cls = "Node"
    /\ res.err = "ValueError"

(* C8: e.dz read in any state equals |nodes[1].z - nodes[0].z| of the      *)
(* nodes' current depths and is greater than or equal to 0.                *)
C8_DzDerivedNonNegative ==
    res.op = "dz" =>
        LET z0 == objs[elem.nodes[1]].z
            z1 == objs[elem.nodes[2]].z
        IN  /\ res.val = (IF FLt(z1, z0) THEN FSub(z0, z1) ELSE FSub(z1, z0))
            /\ FGe(res.val, Zero)

(* C9: in every state the z of each Point or Node, and the temp of each    *)
(* Node, is a finite real number.                                          *)
C9_DepthAndTempFinite ==
    \A i \in ObjIds :
        /\ objs[i].cls # "none" => IsFin(objs[i].z)
        /\ objs[i].cls = "Node" => IsFin(objs[i].temp)

(* C10: storage_matrix() returns the 2x2 quadrature sum, that is           *)
(* dz * vol_heat_cap * [[1/3, 1/6], [1/6, 1/3]], and the result is         *)
(* symmetric: M[0][1] == M[1][0].                                          *)
C10_StorageMatrix ==
    res.op = "storage_matrix" =>
        LET m == FMul(dz(elem), elem.vol_heat_cap)
        IN  /\ res.err = "none"
            /\ res.ty = "matrix"
            /\ res.val[1][1] = FMul(m, Rat(1, 3))
            /\ res.val[2][2] = FMul(m, Rat(1, 3))
            /\ res.val[1][2] = FMul(m, Rat(1, 6))
            /\ FEq(res.val[1][2], res.val[2][1])

----------------------------------------------------------------------------
(* What remains of C8 and C10 on the states where the values involved are  *)
(* numbers: the faults found above are confined to nan and infinities.     *)

\* e.dz is |z1 - z0| and >= 0 whenever it is not nan
Dz_WhenNumber ==
    (res.op = "dz" /\ ~IsNaN(res.val)) =>
        LET z0 == objs[elem.nodes[1]].z
            z1 == objs[elem.nodes[2]].z
        IN  /\ res.val = (IF FLt(z1, z0) THEN FSub(z0, z1) ELSE FSub(z1, z0))
            /\ FGe(res.val, Zero)

\* storage_matrix() is dz * vol_heat_cap * [[1/3, 1/6], [1/6, 1/3]] for finite dz, vol_heat_cap
StorageMatrix_WhenFinite ==
    (res.op = "storage_matrix" /\ IsFin(dz(elem)) /\ IsFin(elem.vol_heat_cap)) =>
        LET m == FMul(dz(elem), elem.vol_heat_cap)
        IN  /\ res.ty = "matrix"
            /\ res.val = <<<<FMul(m, Rat(1, 3)), FMul(m, Rat(1, 6))>>,
                           <<FMul(m, Rat(1, 6)), FMul(m, Rat(1, 3))>>>>

\* thm_cond and vol_heat_cap are >= 0 or nan
Properties_NonNegativeOrNaN ==
    elem.live =>
        /\ IsNaN(elem.thm_cond) \/ FGe(elem.thm_cond, Zero)
        /\ IsNaN(elem.vol_heat_cap) \/ FGe(elem.vol_heat_cap, Zero)

====
